---- MODULE Spec2Model ----
(***************************************************************************)
(* Model of the Minesweeper board of smolkaj/minesweeper.                  *)
(*                                                                         *)
(* The repository holds two variants of the same program, minesweeper.py   *)
(* and main.py.  The class Minesweeper is the same in both except for      *)
(* _place_mines (sampling without replacement / rejection sampling), the   *)
(* hint loop of __init__ and the condition of uncover.  The variable       *)
(* `variant` says which file a behaviour runs.                             *)
(*                                                                         *)
(* A behaviour is one Minesweeper object: its construction, step by step,  *)
(* and then any sequence of calls of uncover, flag and unflag.  The loop   *)
(* of _uncover_cascade is modelled one iteration per step.                 *)
(***************************************************************************)
EXTENDS Integers, Sequences, FiniteSets, TLC

\* ------------------------------------------------------------ constants

COVERED == 0
UNCOVERED == 1
FLAGGED == 2
MINE == -1

\* Largest number of calls of mutators made on the 3x3 board.
MaxCalls == 3

\* Largest number of positions entered in one turn of the turn loop, and
\* largest number of fields of a board the turn loop plays on.
MaxPositions == 2
MaxLoopCells == 2

\* Largest height, width and number of fields of a board the model constructs.
MaxHeight == 2
MaxWidth == 4
MaxCells == 4

Variants == {"minesweeper", "main"}

\* Arguments of the constructor, the invalid ones included.
Heights == -1 .. MaxHeight
Widths == -1 .. MaxWidth
MineCounts(h, w) == -1 .. (IF h > 0 /\ w > 0 THEN h * w + 1 ELSE 1)

VARIABLES
    variant,     \* which source file runs
    height,      \* self.height
    width,       \* self.width
    mines,       \* self.mines
    grid,        \* self.grid: MINE or the hint, per field
    state_grid,  \* self.state_grid: <<>> until __init__ assigns it
    pc,          \* position of the program
    placed,      \* iterations of the for loop of _place_mines done so far
    free,        \* minesweeper.py: the local list `fields` of _place_mines
    idx,         \* __init__: fields of the hint loop done so far
    todo,        \* the local set `todo` of _uncover_cascade
    last,        \* the last call of a mutator and how it ended
    pre,         \* state_grid when the last call of a mutator began
    roundtrip,   \* progress of a flag(i,j) directly followed by unflag(i,j)
    error,       \* the exception that ended the constructor, or "none"
    loop_pc,     \* position of the program around the object ("off": none)
    action,      \* turn loop: the action read for this turn
    positions,   \* turn loop: the positions of this turn not yet applied
    reported,    \* turn loop: "Invalid move." printed in the turn that is running
    called,      \* the fields uncover was called on, when the caller keeps track
    calls        \* the calls of mutators made, when the caller counts them

\* The variables of the program around the object
caller == <<loop_pc, action, positions, reported, called, calls>>

vars == <<variant, height, width, mines, grid, state_grid, pc, placed, free,
          idx, todo, last, pre, roundtrip, error, loop_pc, action, positions,
          reported, called, calls>>

\* ------------------------------------------------------------ helpers

Max(a, b) == IF a > b THEN a ELSE b
Min(a, b) == IF a < b THEN a ELSE b

\* range(a, b) of Python, as a set
Range(a, b) == a .. (b - 1)

\* Minesweeper.fields, as a set
fields == Range(0, height) \X Range(0, width)

\* Minesweeper.fields, in the order itertools.product yields them
fields_seq ==
    IF height > 0 /\ width > 0
    THEN [n \in 1 .. height * width |-> <<(n - 1) \div width, (n - 1) % width>>]
    ELSE <<>>

\* neighbors with `i+1`, `j+1` as the upper ends of the ranges
neighbors_off_by_one(i, j) ==
    Range(Max(i - 1, 0), Min(i + 1, height)) \X Range(Max(j - 1, 0), Min(j + 1, width))

\* Minesweeper.neighbors: the neighbor fields of (i,j), including itself
neighbors(i, j) ==
    Range(Max(i - 1, 0), Min(i + 2, height)) \X Range(Max(j - 1, 0), Min(j + 2, width))

NoCall == [op |-> "none", i |-> 0, j |-> 0, res |-> "none"]
NoRoundtrip == [stage |-> 0, i |-> 0, j |-> 0, pre |-> <<>>]

\* ------------------------------------------------------------ initial state

\* The state at line 41 of __init__ (just before the call of _place_mines):
\* the attributes are set and the grid is all zero.
Init ==
    /\ variant \in Variants
    /\ height \in Heights
    /\ width \in Widths
    /\ height * width <= MaxCells
    /\ mines \in MineCounts(height, width)
    /\ grid = [f \in fields |-> 0]
    /\ state_grid = <<>>
    /\ pc = "place_mines"
    /\ placed = 0
    /\ free = fields
    /\ idx = 0
    /\ todo = {}
    /\ last = NoCall
    /\ pre = <<>>
    /\ roundtrip = NoRoundtrip
    /\ error = "none"
    /\ loop_pc = "off"
    /\ action = 0
    /\ positions = <<>>
    /\ reported = 0
    /\ called = {}
    /\ calls = 0

\* ------------------------------------------------------------ construction

\* What random.choice(fields) may return (minesweeper.py, line 53)
choice(s) == s

\* What (random.randrange(height), random.randrange(width)) may return
\* (main.py, line 37)
randrange_pair == Range(0, height) \X Range(0, width)

\* minesweeper.py, _place_mines: one iteration of `for _ in range(self.mines)`.
\* random.choice raises IndexError on an empty list.
place_mines_choice ==
    /\ pc = "place_mines"
    /\ variant = "minesweeper"
    /\ placed < mines
    /\ IF free = {}
       THEN /\ pc' = "raised"
            /\ error' = "IndexError"
            /\ UNCHANGED <<grid, free, placed>>
       ELSE /\ \E f \in choice(free) :
                /\ grid' = [grid EXCEPT ![f] = MINE]
                /\ free' = free \ {f}
            /\ placed' = placed + 1
            /\ UNCHANGED <<pc, error>>
    /\ UNCHANGED <<variant, height, width, mines, state_grid, idx, todo, last,
                   pre, roundtrip>>

\* The loop of main.py without the test `if self.grid[i][j] != MINE: break`
place_mines_no_reject ==
    /\ pc = "place_mines"
    /\ variant = "main"
    /\ placed < mines
    /\ IF height <= 0 \/ width <= 0
       THEN /\ pc' = "raised"
            /\ error' = "ValueError"
            /\ UNCHANGED <<grid, placed>>
       ELSE /\ \E f \in randrange_pair :
                grid' = [grid EXCEPT ![f] = MINE]
            /\ placed' = placed + 1
            /\ UNCHANGED <<pc, error>>
    /\ UNCHANGED <<variant, height, width, mines, state_grid, free, idx, todo,
                   last, pre, roundtrip>>

\* main.py, _place_mines: one iteration of the inner `while True` loop.
\* random.randrange raises ValueError on an empty range; a draw that hits a
\* mine is rejected and the loop draws again.
place_mines_reject ==
    /\ pc = "place_mines"
    /\ variant = "main"
    /\ placed < mines
    /\ IF height <= 0 \/ width <= 0
       THEN /\ pc' = "raised"
            /\ error' = "ValueError"
            /\ UNCHANGED <<grid, placed>>
       ELSE /\ \E f \in randrange_pair :
                IF grid[f] # MINE
                THEN /\ grid' = [grid EXCEPT ![f] = MINE]
                     /\ placed' = placed + 1
                ELSE UNCHANGED <<grid, placed>>
            /\ UNCHANGED <<pc, error>>
    /\ UNCHANGED <<variant, height, width, mines, state_grid, free, idx, todo,
                   last, pre, roundtrip>>

\* _place_mines returns: range(self.mines) is exhausted (at once when
\* mines <= 0).
place_mines_return ==
    /\ pc = "place_mines"
    /\ placed >= mines
    /\ pc' = "hints"
    /\ UNCHANGED <<variant, height, width, mines, grid, state_grid, placed,
                   free, idx, todo, last, pre, roundtrip, error>>

\* mines_seen with the test `!= 0` in place of `== MINE`
mines_seen_nonzero(g, f) == Cardinality({n \in neighbors(f[1], f[2]) : g[n] # 0})

\* Number of mines the hint loop sees around f (neighbors includes f itself)
mines_seen(g, f) == Cardinality({n \in neighbors(f[1], f[2]) : g[n] = MINE})

\* The value the hint loop of __init__ stores in a field that is no mine:
\* minesweeper.py assigns the sum, main.py increments the field once per mine.
hint_value(g, f) ==
    IF variant = "minesweeper"
    THEN mines_seen(g, f)
    ELSE g[f] + mines_seen(g, f)

\* __init__: one iteration of `for (i, j) in self.fields()`.
init_hint ==
    /\ pc = "hints"
    /\ idx < Len(fields_seq)
    /\ LET f == fields_seq[idx + 1] IN
         grid' = IF grid[f] # MINE
                 THEN [grid EXCEPT ![f] = hint_value(grid, f)]
                 ELSE grid
    /\ idx' = idx + 1
    /\ UNCHANGED <<variant, height, width, mines, state_grid, pc, placed, free,
                   todo, last, pre, roundtrip, error>>

\* __init__: the hint loop is over, state_grid is created and __init__ returns.
init_return ==
    /\ pc = "hints"
    /\ idx >= Len(fields_seq)
    /\ state_grid' = [f \in fields |-> COVERED]
    /\ pc' = "ready"
    /\ UNCHANGED <<variant, height, width, mines, grid, placed, free, idx,
                   todo, last, pre, roundtrip, error>>

\* ------------------------------------------------------------ mutators

\* Bookkeeping of a call op(i,j) that ended with res.
Called(op, i, j, res) ==
    /\ last' = [op |-> op, i |-> i, j |-> j, res |-> res]
    /\ pre' = state_grid
    /\ roundtrip' =
         IF op = "flag" /\ res = "ok"
         THEN [stage |-> 1, i |-> i, j |-> j, pre |-> state_grid]
         ELSE IF /\ op = "unflag" /\ res = "ok"
                 /\ roundtrip.stage = 1 /\ roundtrip.i = i /\ roundtrip.j = j
              THEN [roundtrip EXCEPT !.stage = 2]
              ELSE NoRoundtrip

\* The condition `<= 0` in place of `== 0`
uncover_cascades_on_mines(i, j) == grid[<<i, j>>] <= 0

\* The condition under which uncover starts the cascade
uncover_cascades(i, j) ==
    IF variant = "minesweeper"
    THEN grid[<<i, j>>] = 0
    ELSE grid[<<i, j>>] # MINE /\ grid[<<i, j>>] = 0

\* uncover with the assignment moved before the check
uncover_assigns_first(i, j) ==
    /\ pc = "ready"
    /\ IF state_grid[<<i, j>>] # COVERED
       THEN /\ Called("uncover", i, j, "Illegal")
            /\ state_grid' = [state_grid EXCEPT ![<<i, j>>] = UNCOVERED]
            /\ UNCHANGED <<pc, todo>>
       ELSE /\ Called("uncover", i, j, "ok")
            /\ state_grid' = [state_grid EXCEPT ![<<i, j>>] = UNCOVERED]
            /\ IF uncover_cascades(i, j)
               THEN /\ pc' = "cascade"
                    /\ todo' = neighbors(i, j)
               ELSE UNCHANGED <<pc, todo>>
    /\ UNCHANGED <<variant, height, width, mines, grid, placed, free, idx, error>>

\* uncover without the call of _uncover_cascade
uncover_without_cascade(i, j) ==
    /\ pc = "ready"
    /\ IF state_grid[<<i, j>>] # COVERED
       THEN /\ Called("uncover", i, j, "Illegal")
            /\ UNCHANGED <<state_grid, pc, todo>>
       ELSE /\ Called("uncover", i, j, "ok")
            /\ state_grid' = [state_grid EXCEPT ![<<i, j>>] = UNCOVERED]
            /\ UNCHANGED <<pc, todo>>
    /\ UNCHANGED <<variant, height, width, mines, grid, placed, free, idx, error>>

\* Minesweeper.uncover
uncover(i, j) ==
    /\ pc = "ready"
    /\ IF state_grid[<<i, j>>] # COVERED
       THEN /\ Called("uncover", i, j, "Illegal")
            /\ UNCHANGED <<state_grid, pc, todo>>
       ELSE /\ Called("uncover", i, j, "ok")
            /\ state_grid' = [state_grid EXCEPT ![<<i, j>>] = UNCOVERED]
            /\ IF uncover_cascades(i, j)
               THEN /\ pc' = "cascade"
                    /\ todo' = neighbors(i, j)
               ELSE UNCHANGED <<pc, todo>>
    /\ UNCHANGED <<variant, height, width, mines, grid, placed, free, idx, error>>

\* flag with the check `== UNCOVERED` in place of `!= COVERED`
flag_checks_uncovered(i, j) ==
    /\ pc = "ready"
    /\ IF state_grid[<<i, j>>] = UNCOVERED
       THEN /\ Called("flag", i, j, "Illegal")
            /\ UNCHANGED state_grid
       ELSE /\ Called("flag", i, j, "ok")
            /\ state_grid' = [state_grid EXCEPT ![<<i, j>>] = FLAGGED]
    /\ UNCHANGED <<variant, height, width, mines, grid, pc, placed, free, idx,
                   todo, error>>

\* flag as a toggle: it also takes the flag off a Flagged field
flag_toggles(i, j) ==
    /\ pc = "ready"
    /\ IF state_grid[<<i, j>>] = UNCOVERED
       THEN /\ Called("flag", i, j, "Illegal")
            /\ UNCHANGED state_grid
       ELSE /\ Called("flag", i, j, "ok")
            /\ state_grid' = [state_grid EXCEPT
                                ![<<i, j>>] = IF @ = FLAGGED THEN COVERED ELSE FLAGGED]
    /\ UNCHANGED <<variant, height, width, mines, grid, pc, placed, free, idx,
                   todo, error>>

\* Minesweeper.flag
flag(i, j) ==
    /\ pc = "ready"
    /\ IF state_grid[<<i, j>>] # COVERED
       THEN /\ Called("flag", i, j, "Illegal")
            /\ UNCHANGED state_grid
       ELSE /\ Called("flag", i, j, "ok")
            /\ state_grid' = [state_grid EXCEPT ![<<i, j>>] = FLAGGED]
    /\ UNCHANGED <<variant, height, width, mines, grid, pc, placed, free, idx,
                   todo, error>>

\* unflag with the check `== COVERED` in place of `!= FLAGGED`
unflag_checks_covered(i, j) ==
    /\ pc = "ready"
    /\ IF state_grid[<<i, j>>] = COVERED
       THEN /\ Called("unflag", i, j, "Illegal")
            /\ UNCHANGED state_grid
       ELSE /\ Called("unflag", i, j, "ok")
            /\ state_grid' = [state_grid EXCEPT ![<<i, j>>] = COVERED]
    /\ UNCHANGED <<variant, height, width, mines, grid, pc, placed, free, idx,
                   todo, error>>

\* unflag that stores UNCOVERED in place of COVERED
unflag_stores_uncovered(i, j) ==
    /\ pc = "ready"
    /\ IF state_grid[<<i, j>>] # FLAGGED
       THEN /\ Called("unflag", i, j, "Illegal")
            /\ UNCHANGED state_grid
       ELSE /\ Called("unflag", i, j, "ok")
            /\ state_grid' = [state_grid EXCEPT ![<<i, j>>] = UNCOVERED]
    /\ UNCHANGED <<variant, height, width, mines, grid, pc, placed, free, idx,
                   todo, error>>

\* Minesweeper.unflag
unflag(i, j) ==
    /\ pc = "ready"
    /\ IF state_grid[<<i, j>>] # FLAGGED
       THEN /\ Called("unflag", i, j, "Illegal")
            /\ UNCHANGED state_grid
       ELSE /\ Called("unflag", i, j, "ok")
            /\ state_grid' = [state_grid EXCEPT ![<<i, j>>] = COVERED]
    /\ UNCHANGED <<variant, height, width, mines, grid, pc, placed, free, idx,
                   todo, error>>

\* The cascade as a plain flood fill: neither the test for a mine nor the
\* test for a zero hint
uncover_cascade_floods(k, l) ==
    /\ pc = "cascade"
    /\ <<k, l>> \in todo
    /\ LET rest == todo \ {<<k, l>>} IN
         IF state_grid[<<k, l>>] # COVERED
         THEN /\ todo' = rest
              /\ UNCHANGED state_grid
         ELSE /\ state_grid' = [state_grid EXCEPT ![<<k, l>>] = UNCOVERED]
              /\ todo' = rest \cup neighbors(k, l)
    /\ pc' = IF todo' = {} THEN "ready" ELSE "cascade"
    /\ UNCHANGED <<variant, height, width, mines, grid, placed, free, idx,
                   last, pre, roundtrip, error>>

\* The cascade with the check `== UNCOVERED` in place of `!= COVERED`
uncover_cascade_skips_uncovered(k, l) ==
    /\ pc = "cascade"
    /\ <<k, l>> \in todo
    /\ LET rest == todo \ {<<k, l>>} IN
         IF state_grid[<<k, l>>] = UNCOVERED \/ grid[<<k, l>>] = MINE
         THEN /\ todo' = rest
              /\ UNCHANGED state_grid
         ELSE /\ state_grid' = [state_grid EXCEPT ![<<k, l>>] = UNCOVERED]
              /\ todo' = IF grid[<<k, l>>] = 0
                         THEN rest \cup neighbors(k, l)
                         ELSE rest
    /\ pc' = IF todo' = {} THEN "ready" ELSE "cascade"
    /\ UNCHANGED <<variant, height, width, mines, grid, placed, free, idx,
                   last, pre, roundtrip, error>>

\* The cascade with `todo = set(self.neighbors(k, l))` in place of todo.update
uncover_cascade_replaces_todo(k, l) ==
    /\ pc = "cascade"
    /\ <<k, l>> \in todo
    /\ LET rest == todo \ {<<k, l>>} IN
         IF state_grid[<<k, l>>] # COVERED \/ grid[<<k, l>>] = MINE
         THEN /\ todo' = rest
              /\ UNCHANGED state_grid
         ELSE /\ state_grid' = [state_grid EXCEPT ![<<k, l>>] = UNCOVERED]
              /\ todo' = IF grid[<<k, l>>] = 0
                         THEN neighbors(k, l)
                         ELSE rest
    /\ pc' = IF todo' = {} THEN "ready" ELSE "cascade"
    /\ UNCHANGED <<variant, height, width, mines, grid, placed, free, idx,
                   last, pre, roundtrip, error>>

\* The cascade without the test `state_grid[k][l] != COVERED`
uncover_cascade_revisits(k, l) ==
    /\ pc = "cascade"
    /\ <<k, l>> \in todo
    /\ LET rest == todo \ {<<k, l>>} IN
         IF grid[<<k, l>>] = MINE
         THEN /\ todo' = rest
              /\ UNCHANGED state_grid
         ELSE /\ state_grid' = [state_grid EXCEPT ![<<k, l>>] = UNCOVERED]
              /\ todo' = IF grid[<<k, l>>] = 0
                         THEN rest \cup neighbors(k, l)
                         ELSE rest
    /\ pc' = IF todo' = {} THEN "ready" ELSE "cascade"
    /\ UNCHANGED <<variant, height, width, mines, grid, placed, free, idx,
                   last, pre, roundtrip, error>>

\* Minesweeper._uncover_cascade: one iteration of `while todo`, on the element
\* (k,l) that todo.pop() returns; the loop ends when todo is empty.
uncover_cascade_step(k, l) ==
    /\ pc = "cascade"
    /\ <<k, l>> \in todo
    /\ LET rest == todo \ {<<k, l>>} IN
         IF state_grid[<<k, l>>] # COVERED \/ grid[<<k, l>>] = MINE
         THEN /\ todo' = rest
              /\ UNCHANGED state_grid
         ELSE /\ state_grid' = [state_grid EXCEPT ![<<k, l>>] = UNCOVERED]
              /\ todo' = IF grid[<<k, l>>] = 0
                         THEN rest \cup neighbors(k, l)
                         ELSE rest
    /\ pc' = IF todo' = {} THEN "ready" ELSE "cascade"
    /\ UNCHANGED <<variant, height, width, mines, grid, placed, free, idx,
                   last, pre, roundtrip, error>>

\* ------------------------------------------------------------ queries

\* game_lost without the test for a mine
game_lost_any_uncovered ==
    \E f \in fields : state_grid[f] = UNCOVERED

\* Minesweeper.game_lost
game_lost ==
    \E f \in fields : grid[f] = MINE /\ state_grid[f] = UNCOVERED

\* Minesweeper.game_won: the loop over fields(), from the n-th field on
RECURSIVE game_won_loop(_)
game_won_loop(n) ==
    IF n > Len(fields_seq)
    THEN TRUE
    ELSE LET f == fields_seq[n] IN
         IF grid[f] = MINE /\ state_grid[f] # FLAGGED
         THEN FALSE
         ELSE IF grid[f] # MINE /\ state_grid[f] # UNCOVERED
              THEN FALSE
              ELSE game_won_loop(n + 1)

\* game_won without the test of the fields that hold no mine
game_won_mines_only ==
    \A f \in fields : grid[f] = MINE => state_grid[f] = FLAGGED

\* game_won testing only the fields that hold no mine
game_won_safe_only ==
    \A f \in fields : grid[f] # MINE => state_grid[f] = UNCOVERED

\* Minesweeper.game_won
game_won == game_won_loop(1)

\* Minesweeper.game_over
game_over == game_lost \/ game_won

\* ------------------------------------------------------------ specification

Construct ==
    \/ place_mines_choice
    \/ place_mines_reject
    \/ place_mines_return
    \/ init_hint
    \/ init_return

Play ==
    \E f \in fields :
        \/ uncover(f[1], f[2])
        \/ flag(f[1], f[2])
        \/ unflag(f[1], f[2])
        \/ uncover_cascade_step(f[1], f[2])

\* The constructor, called by a program that does nothing else meanwhile
ConstructAlone ==
    \/ place_mines_choice /\ UNCHANGED caller
    \/ place_mines_reject /\ UNCHANGED caller
    \/ place_mines_return /\ UNCHANGED caller
    \/ init_hint /\ UNCHANGED caller
    \/ init_return /\ UNCHANGED caller

\* Any call of a mutator, by a program that keeps no state of its own
PlayAlone ==
    \/ \E f \in fields : uncover(f[1], f[2]) /\ UNCHANGED caller
    \/ \E f \in fields : flag(f[1], f[2]) /\ UNCHANGED caller
    \/ \E f \in fields : unflag(f[1], f[2]) /\ UNCHANGED caller
    \/ \E f \in fields : uncover_cascade_step(f[1], f[2]) /\ UNCHANGED caller

\* The object alone: its constructor, then any calls of its mutators.
Next == ConstructAlone \/ PlayAlone

Spec == Init /\ [][Next]_vars

\* _uncover_cascade runs inside the call of uncover, which no other call
\* interrupts: while its loop has an iteration to run, it runs it.
cascade_runs == \E f \in fields : uncover_cascade_step(f[1], f[2]) /\ UNCHANGED caller

FairPlay == Init /\ [][Next]_vars /\ WF_vars(cascade_runs)


\* The constructor alone.  Every step of it is taken sooner or later; in
\* main.py a draw that hits a mine leaves the state as it is, so this also
\* says that the rejection loop draws a free field sooner or later, as it
\* does with probability 1.
FairConstruct ==
    /\ Init
    /\ [][ConstructAlone]_vars
    /\ WF_vars(ConstructAlone)

\* ------------------------------------------------------------ turn loop

\* The boards custom_game_prompt constructs: width and height at least 1 and
\* mines in range(0, height*width).  The program is about to call the
\* constructor and will then test `while not game.game_over()`.
InitLoop ==
    /\ variant \in Variants
    /\ height \in 1 .. MaxHeight
    /\ width \in 1 .. MaxWidth
    /\ height * width <= MaxLoopCells
    /\ mines \in Range(0, height * width)
    /\ grid = [f \in fields |-> 0]
    /\ state_grid = <<>>
    /\ pc = "place_mines"
    /\ placed = 0
    /\ free = fields
    /\ idx = 0
    /\ todo = {}
    /\ last = NoCall
    /\ pre = <<>>
    /\ roundtrip = NoRoundtrip
    /\ error = "none"
    /\ loop_pc = "test"
    /\ action = 0
    /\ positions = <<>>
    /\ reported = 0
    /\ called = {}
    /\ calls = 0

\* The lists of positions a turn may enter: minesweeper.py splits the line
\* into any number of positions (none included), main.py reads one position.
PositionLists ==
    LET P == Range(0, width * height) IN
    IF variant = "minesweeper"
    THEN UNION {[1 .. n -> P] : n \in 0 .. MaxPositions}
    ELSE [1 .. 1 -> P]

\* `while not game.game_over()` finds the game over: the loop ends.
loop_exit ==
    /\ loop_pc = "test"
    /\ pc = "ready"
    /\ game_over
    /\ loop_pc' = "over"
    /\ UNCHANGED <<variant, height, width, mines, grid, state_grid, pc, placed,
                   free, idx, todo, last, pre, roundtrip, error, action,
                   positions, reported, called, calls>>

\* The game is not over and the player enters action 4 (Give Up): break.
give_up ==
    /\ loop_pc = "test"
    /\ pc = "ready"
    /\ ~game_over
    /\ action' = 4
    /\ loop_pc' = "given_up"
    /\ UNCHANGED <<variant, height, width, mines, grid, state_grid, pc, placed,
                   free, idx, todo, last, pre, roundtrip, error, positions,
                   reported, called, calls>>

\* The game is not over and the player enters the action a (1 Uncover,
\* 2 Flag, 3 Unflag) and the positions ps.
turn_begin(a, ps) ==
    /\ loop_pc = "test"
    /\ pc = "ready"
    /\ ~game_over
    /\ action' = a
    /\ positions' = ps
    /\ reported' = 0
    /\ loop_pc' = "turn"
    /\ UNCHANGED <<variant, height, width, mines, grid, state_grid, pc, placed,
                   free, idx, todo, last, pre, roundtrip, error, called, calls>>

\* The call the turn loop makes for the action of the turn
apply_action(i, j) ==
    \/ action = 1 /\ uncover(i, j)
    \/ action = 2 /\ flag(i, j)
    \/ action = 3 /\ unflag(i, j)

\* One position of the turn is applied.  minesweeper.py catches Illegal,
\* prints "Invalid move." and goes on with the next position; main.py does
\* not catch it and the program ends with the exception.
turn_apply ==
    /\ loop_pc = "turn"
    /\ pc = "ready"
    /\ positions # <<>>
    /\ LET pos == Head(positions) IN
         apply_action(pos \div width, pos % width)
    /\ positions' = Tail(positions)
    /\ IF last'.res = "Illegal"
       THEN IF variant = "minesweeper"
            THEN /\ reported' = reported + 1
                 /\ loop_pc' = "turn"
            ELSE /\ reported' = reported
                 /\ loop_pc' = "crashed"
       ELSE UNCHANGED <<reported, loop_pc>>
    /\ UNCHANGED <<action, called, calls>>

\* A step of the cascade of an uncover of the turn
turn_cascade ==
    /\ loop_pc = "turn"
    /\ \E f \in fields : uncover_cascade_step(f[1], f[2])
    /\ UNCHANGED caller

\* All positions of the turn are applied: back to the test of the loop (the
\* count of the messages of the turn starts anew).
turn_end ==
    /\ loop_pc = "turn"
    /\ pc = "ready"
    /\ positions = <<>>
    /\ loop_pc' = "test"
    /\ reported' = 0
    /\ UNCHANGED <<variant, height, width, mines, grid, state_grid, pc, placed,
                   free, idx, todo, last, pre, roundtrip, error, action,
                   positions, called, calls>>

NextLoop ==
    \/ ConstructAlone
    \/ loop_exit
    \/ give_up
    \/ \E a \in 1 .. 3 : \E ps \in PositionLists : turn_begin(a, ps)
    \/ turn_apply
    \/ turn_cascade
    \/ turn_end

\* One game of the main program: the constructor, then the turn loop.
SpecLoop == InitLoop /\ [][NextLoop]_vars

\* ------------------------------------------------------------ 3x3 board

\* The 3x3 board with its only mine at (0,0), at the return of _place_mines
\* (the draw of the mine is fixed; the hint loop is still to run).
Init3x3 ==
    /\ variant \in Variants
    /\ height = 3
    /\ width = 3
    /\ mines = 1
    /\ grid = [f \in fields |-> IF f = <<0, 0>> THEN MINE ELSE 0]
    /\ state_grid = <<>>
    /\ pc = "hints"
    /\ placed = 1
    /\ free = fields \ {<<0, 0>>}
    /\ idx = 0
    /\ todo = {}
    /\ last = NoCall
    /\ pre = <<>>
    /\ roundtrip = NoRoundtrip
    /\ error = "none"
    /\ loop_pc = "off"
    /\ action = 0
    /\ positions = <<>>
    /\ reported = 0
    /\ called = {}
    /\ calls = 0

\* A call of a mutator by a caller that counts its calls
counted_call(i, j) ==
    /\ calls < MaxCalls
    /\ \/ uncover(i, j)
       \/ flag(i, j)
       \/ unflag(i, j)
    /\ calls' = calls + 1
    /\ UNCHANGED <<loop_pc, action, positions, reported, called>>

Next3x3 ==
    \/ init_hint /\ UNCHANGED caller
    \/ init_return /\ UNCHANGED caller
    \/ \E f \in fields : counted_call(f[1], f[2])
    \/ \E f \in fields : uncover_cascade_step(f[1], f[2]) /\ UNCHANGED caller

\* The 3x3 board with its only mine at (0,0): the rest of its construction,
\* then up to MaxCalls calls of its mutators.
Spec3x3 == Init3x3 /\ [][Next3x3]_vars

\* ------------------------------------------- a client uncovering every field

\* A client calls uncover once on each field, in any order: the fields it
\* has called uncover on are collected in called.
uncover_once(i, j) ==
    /\ <<i, j>> \notin called
    /\ uncover(i, j)
    /\ called' = called \cup {<<i, j>>}
    /\ UNCHANGED <<loop_pc, action, positions, reported, calls>>

NextEach ==
    \/ place_mines_choice /\ UNCHANGED caller
    \/ place_mines_reject /\ UNCHANGED caller
    \/ place_mines_return /\ UNCHANGED caller
    \/ init_hint /\ UNCHANGED caller
    \/ init_return /\ UNCHANGED caller
    \/ \E f \in fields : uncover_once(f[1], f[2])
    \/ \E f \in fields : uncover_cascade_step(f[1], f[2]) /\ UNCHANGED caller

SpecEach == Init /\ [][NextEach]_vars


\* The object is constructed and no call is running.
Ready == pc = "ready"

\* The object is constructed (a call of uncover may be running).
Constructed == pc \in {"ready", "cascade"}

TypeOK ==
    /\ variant \in Variants
    /\ pc \in {"place_mines", "hints", "ready", "cascade", "raised"}
    /\ DOMAIN grid = fields
    /\ \A f \in fields : grid[f] \in -1 .. 8
    /\ Constructed => DOMAIN state_grid = fields
    /\ Constructed => \A f \in fields : state_grid[f] \in {COVERED, UNCOVERED, FLAGGED}
    /\ todo \subseteq fields

\* ------------------------------------------------------------ claims

\* The field the last call was about
last_field == <<last.i, last.j>>

\* The step is a call of a mutator on the field f
CallOn(f) == uncover(f[1], f[2]) \/ flag(f[1], f[2]) \/ unflag(f[1], f[2])

\* C1: a call of uncover, flag or unflag that fails with Illegal leaves
\* state_grid and grid exactly as they were before the call.
C1_IllegalLeavesBoardUnchanged ==
    [][\A f \in fields :
          (CallOn(f) /\ last'.res = "Illegal")
              => (state_grid' = state_grid /\ grid' = grid)]_vars

\* C1: an unflag of a Covered field has failed, on a board where another
\* field is not Covered, and the board is as it was before the call.
C1_Witness ==
    /\ Ready
    /\ last.op = "unflag" /\ last.res = "Illegal"
    /\ state_grid[last_field] = COVERED
    /\ \E f \in fields : state_grid[f] # COVERED
    /\ state_grid = pre

\* C2: uncover(i,j) and flag(i,j) fail with Illegal iff the field is not
\* Covered, unflag(i,j) fails iff the field is not Flagged; a field that is
\* Uncovered stays Uncovered, so that every later uncover of it fails.
C2_IllegalIffWrongState ==
    [][\A f \in fields :
          /\ uncover(f[1], f[2]) => (last'.res = "Illegal" <=> state_grid[f] # COVERED)
          /\ flag(f[1], f[2]) => (last'.res = "Illegal" <=> state_grid[f] # COVERED)
          /\ unflag(f[1], f[2]) => (last'.res = "Illegal" <=> state_grid[f] # FLAGGED)
          /\ (Constructed /\ state_grid[f] = UNCOVERED) => state_grid'[f] = UNCOVERED]_vars

\* C2: an uncover has failed on an Uncovered field with a hint, next to an
\* Uncovered field without one (an uncover of either has uncovered both).
C2_Witness ==
    /\ Ready
    /\ last.op = "uncover" /\ last.res = "Illegal"
    /\ state_grid[last_field] = UNCOVERED
    /\ grid[last_field] > 0
    /\ \E f \in neighbors(last.i, last.j) : grid[f] = 0 /\ state_grid[f] = UNCOVERED

\* Two fields are the same or touch, at a side or a corner
Adjacent(a, b) ==
    /\ a[1] - b[1] \in -1 .. 1
    /\ a[2] - b[2] \in -1 .. 1

\* The fields that can be reached from S by steps between adjacent fields of
\* `through`
RECURSIVE Reach(_, _)
Reach(S, through) ==
    LET N == S \cup {c \in through : \E r \in S : Adjacent(c, r)}
    IN IF N = S THEN S ELSE Reach(N, through)

\* The fields of R and the fields adjacent to one of them
Around(R) == {c \in fields : \E r \in R : Adjacent(c, r)}

\* The maximal 8-connected region of zero-hint fields that contains f
ZeroRegion(f) == Reach({f}, {c \in fields : grid[c] = 0})

\* The same, through the zero-hint fields that were Covered before the last call
CoveredZeroRegion(f) ==
    Reach({f}, {c \in fields : grid[c] = 0 /\ pre[c] = COVERED})

\* The arguments of the constructor are those the specification allows
ValidArgs ==
    /\ height > 0
    /\ width > 0
    /\ mines >= 0
    /\ mines <= height * width

\* The last call was a successful uncover of a zero-hint field and has returned
CascadeDone ==
    /\ Ready
    /\ last.op = "uncover" /\ last.res = "ok"
    /\ grid[last_field] = 0

\* C3, as claimed: after a successful uncover(i,j) of a zero-hint field, every
\* field of the maximal region of zero-hint fields around (i,j), and every
\* field adjacent to that region, is Uncovered.
C3_Original ==
    (ValidArgs /\ CascadeDone) =>
        \A c \in Around(ZeroRegion(last_field)) : state_grid[c] = UNCOVERED

\* C3, amended: after a successful uncover(i,j) of a zero-hint field, every
\* field that was Covered before the call and lies in, or adjacent to, the
\* maximal region around (i,j) of zero-hint fields that were Covered before
\* the call is Uncovered.
C3_CascadeClosure ==
    CascadeDone =>
        \A c \in Around(CoveredZeroRegion(last_field)) :
            pre[c] = COVERED => state_grid[c] = UNCOVERED

\* C3: a cascade has uncovered a field other than its origin and has left a
\* field of the maximal zero-hint region Covered or Flagged.
C3_Witness ==
    /\ ValidArgs
    /\ CascadeDone
    /\ \E c \in fields \ {last_field} :
          pre[c] = COVERED /\ state_grid[c] = UNCOVERED
    /\ \E c \in ZeroRegion(last_field) : state_grid[c] # UNCOVERED

\* C4: a mine becomes Uncovered only as the target of a successful
\* uncover(i,j), never in a step of the cascade, and game_lost turns true
\* only in such a call.
C4_MinesOnlyByDirectUncover ==
    [][Constructed =>
        /\ \A f \in fields :
              (grid[f] = MINE /\ state_grid[f] # UNCOVERED /\ state_grid'[f] = UNCOVERED)
                  => (uncover(f[1], f[2]) /\ last'.res = "ok")
        /\ (~game_lost /\ game_lost')
              => \E f \in fields :
                    grid[f] = MINE /\ uncover(f[1], f[2]) /\ last'.res = "ok"]_vars

\* C4: on a board with a mine, a cascade has uncovered fields other than its
\* origin and the game is not lost.
C4_Witness ==
    /\ CascadeDone
    /\ \E f \in fields : grid[f] = MINE
    /\ \E c \in fields \ {last_field} :
          pre[c] = COVERED /\ state_grid[c] = UNCOVERED
    /\ ~game_lost

\* C5: once game_lost is true it stays true, whatever is called.
C5_LostStaysLost ==
    [][(Constructed /\ game_lost) => game_lost']_vars

\* C5: the game was lost before the last call, a successful unflag, and is
\* still lost.
C5_Witness ==
    /\ Ready
    /\ last.op = "unflag" /\ last.res = "ok"
    /\ \E f \in fields : grid[f] = MINE /\ pre[f] = UNCOVERED
    /\ game_lost

\* C6: in every step a field changes only Covered->Flagged, Flagged->Covered
\* or Covered->Uncovered.
C6_Transitions ==
    [][Constructed =>
        \A f \in fields :
            state_grid'[f] # state_grid[f]
                => <<state_grid[f], state_grid'[f]>> \in
                      {<<COVERED, FLAGGED>>, <<FLAGGED, COVERED>>, <<COVERED, UNCOVERED>>}]_vars

\* C6: a cascade has uncovered a zero-hint field next to a Flagged field (so
\* it has popped the Flagged field), and that field is still Flagged.
C6_Witness ==
    /\ CascadeDone
    /\ \E z \in fields :
          /\ grid[z] = 0 /\ pre[z] = COVERED /\ state_grid[z] = UNCOVERED
          /\ \E c \in fields :
                Adjacent(c, z) /\ pre[c] = FLAGGED /\ state_grid[c] = FLAGGED

\* Every mine is Flagged
AllMinesFlagged == \A f \in fields : grid[f] = MINE => state_grid[f] = FLAGGED

\* Every field that holds no mine is Uncovered
AllSafeUncovered == \A f \in fields : grid[f] # MINE => state_grid[f] = UNCOVERED

\* C7: game_won returns true iff every mine is Flagged and every other field
\* is Uncovered.
C7_WonIff ==
    Constructed => (game_won <=> (AllMinesFlagged /\ AllSafeUncovered))

\* C7: all mines (there is one) are Flagged, a field without a mine is still
\* Covered and game_won is false.
C7_Witness ==
    /\ Constructed
    /\ \E f \in fields : grid[f] = MINE
    /\ AllMinesFlagged
    /\ \E f \in fields : grid[f] # MINE /\ state_grid[f] = COVERED
    /\ ~game_won

\* C8: flag(i,j) on a Covered field succeeds, the unflag(i,j) that directly
\* follows it succeeds too, and state_grid is then what it was before the two
\* calls.
C8_FlagUnflagRoundTrip ==
    [][\A f \in fields :
          /\ (flag(f[1], f[2]) /\ state_grid[f] = COVERED)
                => (last'.res = "ok" /\ roundtrip'.stage = 1)
          /\ (unflag(f[1], f[2]) /\ roundtrip.stage = 1 /\ <<roundtrip.i, roundtrip.j>> = f)
                => (last'.res = "ok" /\ state_grid' = roundtrip.pre)]_vars

\* C8: a flag and the unflag of the same field that directly followed it
\* have both succeeded, on a board where another field is not Covered.
C8_Witness ==
    /\ Ready
    /\ roundtrip.stage = 2
    /\ last.op = "unflag" /\ last.res = "ok"
    /\ state_grid[last_field] = COVERED
    /\ \E f \in fields : state_grid[f] # COVERED
    /\ state_grid = roundtrip.pre

\* Number of mines in the grid
MineCount == Cardinality({f \in fields : grid[f] = MINE})

\* C9: the constructor returns a board only for valid arguments: it fails
\* whenever mines < 0, mines > height*width, height <= 0 or width <= 0.
C9_RejectsInvalidArgs ==
    Constructed => ValidArgs

\* C10: for valid arguments (mines = height*width included) the constructor
\* returns, and the grid then holds exactly `mines` mines.
C10_ExactMineCount ==
    /\ ValidArgs ~> (pc = "ready")
    /\ []((pc = "ready" /\ ValidArgs) => MineCount = mines)

\* C10: main.py has constructed a board of at least two fields, all of them
\* mines.
C10_Witness ==
    /\ pc = "ready"
    /\ ValidArgs
    /\ variant = "main"
    /\ mines = height * width
    /\ mines >= 2
    /\ MineCount = mines

\* The mines among the up to 8 fields of the board around f, f excluded
MinesAround(f) ==
    Cardinality({c \in fields : c # f /\ Adjacent(c, f) /\ grid[c] = MINE})

\* C11: after construction every field that holds no mine holds the number
\* of mines among its up to 8 neighbours on the board, in both variants (so
\* both compute the same hint grid from the same mines).
C11_HintsCountMines ==
    (pc = "ready") => \A f \in fields : grid[f] # MINE => grid[f] = MinesAround(f)

\* C11: main.py has constructed a board with two mines next to one field
\* that holds none, and a field that has only some of its 8 neighbours on
\* the board.
C11_Witness ==
    /\ pc = "ready"
    /\ variant = "main"
    /\ ValidArgs
    /\ \E f \in fields : grid[f] = 2
    /\ \E f \in fields : grid[f] = 1

\* C12: when the move for a position of a turn fails with Illegal, the
\* failure is reported, the board is as before, the game keeps running and
\* the remaining positions of the turn are still to be applied.
C12_IllegalKeepsTurnRunning ==
    [][(turn_apply /\ last'.res = "Illegal")
          => /\ reported' = reported + 1
             /\ state_grid' = state_grid
             /\ loop_pc' = "turn"
             /\ positions' = Tail(positions)]_vars

\* C20: within a turn game_over never turns false again, and the test of
\* the loop that finds the game over ends the loop, for good.
C20_OverStaysOverInTurn ==
    [][/\ (loop_pc = "turn" /\ game_over) => game_over'
       /\ (loop_pc = "test" /\ pc = "ready" /\ game_over) => loop_pc' = "over"
       /\ (loop_pc = "over") => loop_pc' = "over"]_vars

\* C20: in minesweeper.py the game was won by a flag of a turn, and a later
\* position of the same turn has been applied (and has failed).
C20_Witness ==
    /\ variant = "minesweeper"
    /\ loop_pc = "turn"
    /\ pc = "ready"
    /\ action = 2
    /\ last.op = "flag" /\ last.res = "Illegal"
    /\ reported = 1
    /\ game_won

\* uncover(2,2) has returned, and every field was Covered when it was called
AfterUncover22 ==
    /\ pc = "ready"
    /\ last = [op |-> "uncover", i |-> 2, j |-> 2, res |-> "ok"]
    /\ \A f \in fields : pre[f] = COVERED

\* C13: on the 3x3 board with its only mine at (0,0), uncover(2,2) from the
\* all-Covered state leaves the 8 other fields Uncovered and (0,0) Covered;
\* game_won is false then, flag(0,0) makes it true and nothing else does
\* (game_won never holds unless (0,0) is Flagged).
C13_Board3x3 ==
    /\ [](AfterUncover22 =>
            /\ \A f \in fields \ {<<0, 0>>} : state_grid[f] = UNCOVERED
            /\ state_grid[<<0, 0>>] = COVERED
            /\ ~game_won)
    /\ [](Constructed => (game_won => state_grid[<<0, 0>>] = FLAGGED))
    /\ [][AfterUncover22 =>
            /\ flag(0, 0) => game_won'
            /\ game_won' => flag(0, 0)]_vars

\* C13: uncover(2,2) and then flag(0,0) were called on the fresh 3x3 board,
\* and the game is won.
C13_Witness ==
    /\ height = 3 /\ width = 3
    /\ pc = "ready"
    /\ calls = 2
    /\ last = [op |-> "flag", i |-> 0, j |-> 0, res |-> "ok"]
    /\ \A f \in fields \ {<<0, 0>>} : pre[f] = UNCOVERED
    /\ pre[<<0, 0>>] = COVERED
    /\ game_won
    /\ ~game_lost

\* C14: on a board constructed with mines = 0, game_lost is false in every
\* state while a client calls uncover once on each field in any order, and
\* game_won is true once uncover has been called on every field.
C14_NoMinesWonByUncovering ==
    (mines = 0 /\ Constructed) =>
        /\ ~game_lost
        /\ (Ready /\ called = fields) => game_won

\* C14: uncover was called once on each of four fields of a board without
\* mines, the last of the calls has returned, and the game is won.
C14_Witness ==
    /\ mines = 0
    /\ Ready
    /\ Cardinality(fields) = MaxCells
    /\ called = fields
    /\ last.op = "uncover"
    /\ game_won

\* Every field of the board holds a mine
AllMines == height > 0 /\ width > 0 /\ mines = height * width

\* C15: on a board with mines = height*width, every successful uncover makes
\* game_lost true, and game_won holds exactly when every field is Flagged (so
\* game_won is false once a field is Uncovered).
C15_AllMinesWonOnlyByFlags ==
    /\ []((AllMines /\ Constructed) =>
            /\ game_won <=> \A f \in fields : state_grid[f] = FLAGGED
            /\ (\E f \in fields : state_grid[f] = UNCOVERED) => game_lost /\ ~game_won)
    /\ [][(AllMines /\ Ready /\ last'.op = "uncover" /\ last'.res = "ok"
            /\ \E f \in fields : uncover(f[1], f[2]))
          => game_lost']_vars

\* C15: on a board of mines only, with a flag on one of them, a successful
\* uncover of another has lost the game.
C15_Witness ==
    /\ AllMines
    /\ Cardinality(fields) > 1
    /\ Ready
    /\ last.op = "uncover" /\ last.res = "ok"
    /\ \E f \in fields : state_grid[f] = FLAGGED
    /\ game_lost
    /\ ~game_won

\* The fields that are Covered
CoveredFields == {f \in fields : state_grid[f] = COVERED}

\* C16: every iteration of the loop of _uncover_cascade either uncovers a
\* Covered field or removes an element from the work-set without adding any,
\* and changes no field except from Covered to Uncovered (so a field is
\* switched at most once); a running cascade reaches the empty work-set,
\* whatever the board, the state before the call and the order of the pops.
C16_CascadeTerminates ==
    /\ [][pc = "cascade" =>
            /\ \/ Cardinality(CoveredFields') < Cardinality(CoveredFields)
               \/ /\ CoveredFields' = CoveredFields
                  /\ Cardinality(todo') < Cardinality(todo)
            /\ \A f \in fields : state_grid'[f] # state_grid[f] =>
                   state_grid[f] = COVERED /\ state_grid'[f] = UNCOVERED]_vars
    /\ (pc = "cascade") ~> (pc = "ready" /\ todo = {})

\* C16: a cascade that uncovered at least two more fields than the one
\* uncover was called on, on a board with a flag, has ended.
C16_Witness ==
    /\ CascadeDone
    /\ todo = {}
    /\ \E f \in fields : state_grid[f] = FLAGGED
    /\ Cardinality({f \in fields : pre[f] = COVERED /\ state_grid[f] = UNCOVERED}) >= 3

\* The state_grid that the last call, a successful uncover of a zero-hint
\* field, must return with: the fields that were Covered and lie in or next to
\* the region of Covered zero-hint fields around the target are Uncovered, and
\* every other field is as it was before the call.
CascadeResult ==
    [f \in fields |->
        IF pre[f] = COVERED /\ f \in Around(CoveredZeroRegion(last_field))
        THEN UNCOVERED
        ELSE pre[f]]

\* C17: the state_grid a cascade ends with is a function of the board, the
\* state_grid before uncover(i,j) and (i,j): it is the same for every order in
\* which the elements are popped from the work-set.
C17_CascadeOrderIndependent == CascadeDone => state_grid = CascadeResult

\* C17: on a board with a mine and a flag, a cascade has ended that uncovered
\* at least two fields besides its origin, and so had several pop orders.
C17_Witness ==
    /\ CascadeDone
    /\ \E f \in fields : grid[f] = MINE
    /\ \E f \in fields : pre[f] = FLAGGED
    /\ Cardinality({f \in fields \ {last_field} :
                       pre[f] = COVERED /\ state_grid[f] = UNCOVERED}) >= 2
    /\ state_grid = CascadeResult

\* C18: a successful uncover(i,j) of a mine or of a field with a nonzero hint
\* changes state_grid at (i,j) alone, to Uncovered, and returns without
\* running the cascade; the cascade starts only in a successful uncover of a
\* field that holds no mine and has hint 0.
C18_UncoverFrame ==
    [][/\ \A f \in fields :
            (Ready /\ uncover(f[1], f[2]) /\ last'.res = "ok" /\ grid[f] # 0) =>
                /\ state_grid' = [state_grid EXCEPT ![f] = UNCOVERED]
                /\ state_grid[f] # UNCOVERED
                /\ pc' = "ready"
                /\ todo' = todo
       /\ (pc # "cascade" /\ pc' = "cascade") =>
            \E f \in fields :
                /\ uncover(f[1], f[2]) /\ last'.res = "ok"
                /\ grid[f] # MINE /\ grid[f] = 0]_vars

\* C18: uncover of a field with a nonzero hint has returned; the field alone
\* changed, and a zero-hint field next to it is still Covered.
C18_Witness ==
    /\ Ready
    /\ last.op = "uncover" /\ last.res = "ok"
    /\ grid[last_field] > 0
    /\ state_grid = [pre EXCEPT ![last_field] = UNCOVERED]
    /\ \E c \in fields : /\ Adjacent(c, last_field)
                         /\ grid[c] = 0
                         /\ state_grid[c] = COVERED

\* C19, as claimed: on every board the constructor returns, game_won and
\* game_lost are never both true, and game_won is false while every field is
\* Covered.
C19_WonLostExclusive ==
    Constructed =>
        /\ ~(game_won /\ game_lost)
        /\ (\A f \in fields : state_grid[f] = COVERED) => ~game_won

\* C19 on the boards the specification allows
C19_OnValidBoards == ValidArgs => C19_WonLostExclusive

====
